---- MODULE Spec2Model ----
(***************************************************************************)
(* A model of the shared library functions of fhirclient (src/lib.ts, kept  *)
(* here as src/unnamed/part_000): the request pipeline and its per-URL      *)
(* cache, the target window resolver, the token expiration calculator, the *)
(* patient parameter resolver, the JSON patch validator and the dotted     *)
(* path accessor.                                                          *)
(*                                                                         *)
(* Each group of functions has its own specification over its own          *)
(* variables; the variables of the other groups stay at their idle value.  *)
(***************************************************************************)
EXTENDS Integers, Sequences, FiniteSets, TLC

VARIABLES
    cache,      \* part_000:17   url -> index of the cached request promise (0: no entry)
    reqs,       \* the promises returned by request(), in order of creation
    fetches,    \* every call of fetch(), in order of issue
    calls,      \* every call of getAndCache(), in order, with the promise it returned
    tw,         \* one run of getTargetWindow
    tk,         \* one run of jwtDecode / getAccessTokenExpiration
    pp,         \* one run of getPatientParam
    jp,         \* one run of assertJsonPatch
    pa          \* one run of setPath / getPath

vars == <<cache, reqs, fetches, calls, tw, tk, pp, jp, pa>>

cacheVars == <<cache, reqs, fetches, calls>>

Idle == [pc |-> "idle"]

(***************************************************************************)
(* Bounds of the model.                                                    *)
(***************************************************************************)
MaxCalls == 3       \* calls of getAndCache() made by the application
MaxRequests == 1    \* calls of request() made by the application
MaxFetches == 4     \* calls of fetch(), follow-ups included

(***************************************************************************)
(* The request pipeline: request() and getAndCache().                      *)
(***************************************************************************)
Urls == {"u1", "u2"}

NoLocation == "none"

\* requestOptions as the caller passes them: method, body, headers and the
\* includeResponse flag that request() splits off (part_000:117).
DefaultOptions ==
    [method |-> "GET", body |-> FALSE, headers |-> "h0", includeResponse |-> FALSE]

Options ==
    { [method |-> "GET", body |-> FALSE, headers |-> "h0", includeResponse |-> FALSE],
      [method |-> "POST", body |-> TRUE, headers |-> "h1", includeResponse |-> FALSE],
      [method |-> "POST", body |-> TRUE, headers |-> "h1", includeResponse |-> TRUE] }

\* What a server can answer: a status, a content type, the raw body text and
\* a Location header (or none).
Statuses == {200, 201, 404}

ContentTypes == {"json", "text", "other"}

Texts == {"", "{}"}

Responses ==
    [status : Statuses, ctype : ContentTypes, text : Texts,
     location : Urls \cup {NoLocation}]

\* The answers the callers of the cache meet: a document, a failure status,
\* a created resource to follow, a document that does not parse.
CacheResponses ==
    { [status |-> 200, ctype |-> "json", text |-> "{}", location |-> NoLocation],
      [status |-> 404, ctype |-> "text", text |-> "", location |-> NoLocation],
      [status |-> 201, ctype |-> "text", text |-> "", location |-> "u2"],
      [status |-> 200, ctype |-> "json", text |-> "", location |-> NoLocation] }

\* Response.ok: the status is in the range 200-299.
ok(resp) == resp.status >= 200 /\ resp.status <= 299

\* JSON.parse on the raw text: the empty text is no JSON document and throws
\* a SyntaxError.
JSONparse(text) ==
    CASE text = "" -> [t |-> "throw", s |-> "SyntaxError"]
      [] OTHER -> [t |-> "object", s |-> text]

\* part_000:127-135: the body by content type; res.json() is JSON.parse of
\* the body text, res.text() is the text, anything else is undefined.
parseBody(resp) ==
    CASE resp.ctype = "json" -> JSONparse(resp.text)
      [] resp.ctype = "text" -> [t |-> "string", s |-> resp.text]
      [] OTHER -> [t |-> "undefined", s |-> ""]

\* HttpError.parse (HttpError.ts): the body of the failed response is read
\* into the error by content type; a failure to read or parse it is
\* swallowed and leaves the error without a body.
parse(resp) ==
    IF parseBody(resp).t = "throw"
    THEN [t |-> "undefined", s |-> ""]
    ELSE parseBody(resp)

\* part_000:60-67.  "return": the response is handed on; "throw": the
\* HttpError is thrown when ok is not true; an error raised by the awaited
\* error.parse() would be thrown in its place, under its own name.
checkResponse(resp) ==
    IF ~ok(resp)
    THEN IF parse(resp).t = "throw" THEN parse(resp).s ELSE "throw"
    ELSE "return"

\* !body of JavaScript for the bodies above.
falsyBody(body) ==
    \/ body.t = "undefined"
    \/ body.t = "null"
    \/ body.t = "string" /\ body.s = ""

\* part_000:126-165, the three then-steps applied to one response, with the
\* outcome `checked` of the first step: what the promise chain of request()
\* does with the response.
requestThenWith(resp, includeResponse, checked) ==
    LET body == parseBody(resp) IN
    CASE checked = "throw" ->
            [do |-> "reject", kind |-> "HttpError", body |-> parse(resp)]
      [] checked \notin {"throw", "return"} ->
            [do |-> "reject", kind |-> checked, body |-> body]
      [] checked = "return" /\ body.t = "throw" ->
            [do |-> "reject", kind |-> body.s, body |-> body]
      [] OTHER ->
            IF falsyBody(body) /\ resp.status = 201 /\ resp.location # NoLocation
            THEN [do |-> "follow", kind |-> "", body |-> body]
            ELSE IF includeResponse
                 THEN [do |-> "fulfil", kind |-> "bodyAndResponse", body |-> body]
                 ELSE IF body.t = "undefined"
                      THEN [do |-> "fulfil", kind |-> "response", body |-> body]
                      ELSE [do |-> "fulfil", kind |-> "body", body |-> body]

\* A slip that leaves checkResponse out of the chain.
requestThenUnchecked(resp, includeResponse) ==
    requestThenWith(resp, includeResponse, "return")

\* part_000:118-165: the chain with checkResponse as its first step.
requestThen(resp, includeResponse) ==
    requestThenWith(resp, includeResponse, checkResponse(resp))

\* The response slot of a fetch that has not been answered.
NoResponse == [status |-> 0, ctype |-> "", text |-> "", location |-> NoLocation]

\* The fetch() call of part_000:118: the fetch issued for request `req`.
\* `first` tells the fetch of a call of request() by the application from a
\* follow-up, `call` is the call of getAndCache() behind it (0: none).
Fetch(req, url, options, first, call) ==
    [req |-> req, url |-> url, method |-> options.method, body |-> options.body,
     headers |-> options.headers, first |-> first, call |-> call,
     resp |-> NoResponse]

\* A new pending promise of request(): `last` is its fetch in flight, `n` the
\* number of fetches it has issued so far.
NewRequest(url, options, via) ==
    [state |-> "pending", kind |-> "", from |-> 0, status |-> 0,
     url |-> url, options |-> options, via |-> via,
     last |-> Len(fetches) + 1, n |-> 1]

\* request(url, options) called by the application: one fetch is issued
\* synchronously and the pending promise is returned.
request(url, options) ==
    /\ Len(reqs) < MaxRequests
    /\ Len(fetches) < MaxFetches
    /\ reqs' = Append(reqs, NewRequest(url, options, "request"))
    /\ fetches' = Append(fetches, Fetch(Len(reqs) + 1, url, options, TRUE, 0))
    /\ UNCHANGED <<cache, calls>>

\* part_000:143-148: the follow-up request: the same options with method GET
\* and body null; includeResponse is handed on.
followOptions(options) ==
    [options EXCEPT !.method = "GET", !.body = FALSE]

\* The response to the fetch in flight of request r arrives and runs the
\* then-steps: the promise is rejected, fulfilled, or follows the Location.
Respond(r, resp) ==
    /\ r \in 1..Len(reqs)
    /\ reqs[r].state = "pending"
    /\ LET q == reqs[r]
           step == requestThen(resp, q.options.includeResponse)
       IN CASE step.do = "follow" ->
                 /\ Len(fetches) < MaxFetches
                 /\ fetches' = Append([fetches EXCEPT ![q.last].resp = resp],
                        Fetch(r, resp.location, followOptions(q.options), FALSE, 0))
                 /\ reqs' = [reqs EXCEPT ![r] =
                        [q EXCEPT !.options = followOptions(q.options),
                                  !.last = Len(fetches) + 1, !.n = q.n + 1]]
            [] step.do = "reject" ->
                 /\ reqs' = [reqs EXCEPT ![r] =
                        [q EXCEPT !.state = "rejected", !.kind = step.kind,
                                  !.from = q.last, !.status = resp.status]]
                 /\ fetches' = [fetches EXCEPT ![q.last].resp = resp]
            [] OTHER ->
                 /\ reqs' = [reqs EXCEPT ![r] =
                        [q EXCEPT !.state = "fulfilled", !.kind = step.kind,
                                  !.from = q.last, !.status = resp.status]]
                 /\ fetches' = [fetches EXCEPT ![q.last].resp = resp]
    /\ UNCHANGED <<cache, calls>>

\* fetch() itself fails (no network): the promise of request() rejects with
\* the error of fetch.
FetchFails(r) ==
    /\ r \in 1..Len(reqs)
    /\ reqs[r].state = "pending"
    /\ reqs' = [reqs EXCEPT ![r] =
            [reqs[r] EXCEPT !.state = "rejected", !.kind = "TypeError",
                            !.from = reqs[r].last]]
    /\ UNCHANGED <<cache, calls, fetches>>

\* Whether the entry of url is a promise that has not settled yet.
EntryPending(url) == cache[url] # 0 /\ reqs[cache[url]].state = "pending"

\* part_000:176-186 with the test of line 181 and the store of line 182 as
\* parameters: fetchNow is the test, store whether the new promise is cached.
getAndCacheWith(url, options, force, fetchNow, store) ==
    /\ Len(calls) < MaxCalls
    /\ fetchNow \in BOOLEAN
    /\ IF fetchNow
       THEN /\ Len(fetches) < MaxFetches
            /\ reqs' = Append(reqs, NewRequest(url, options, "getAndCache"))
            /\ fetches' = Append(fetches,
                   Fetch(Len(reqs) + 1, url, options, TRUE, Len(calls) + 1))
            /\ cache' = IF store THEN [cache EXCEPT ![url] = Len(reqs) + 1] ELSE cache
            /\ calls' = Append(calls,
                   [url |-> url, force |-> force, promise |-> Len(reqs) + 1,
                    issued |-> TRUE, entry |-> cache[url],
                    pending |-> EntryPending(url)])
       ELSE /\ calls' = Append(calls,
                   [url |-> url, force |-> force, promise |-> cache[url],
                    issued |-> FALSE, entry |-> cache[url],
                    pending |-> EntryPending(url)])
            /\ UNCHANGED <<cache, reqs, fetches>>

\* A slip that forgets the cache: every call fetches.
getAndCacheAlways(url, options, force) ==
    getAndCacheWith(url, options, force, TRUE, TRUE)

\* A slip that drops a failed entry: a rejected promise is fetched again.
getAndCacheRetry(url, options, force) ==
    getAndCacheWith(url, options, force,
        force \/ cache[url] = 0 \/ reqs[cache[url]].state = "rejected", TRUE)

\* A slip that bypasses the cache on force without refreshing the entry.
getAndCacheNoStore(url, options, force) ==
    getAndCacheWith(url, options, force, force \/ cache[url] = 0, cache[url] = 0)

\* part_000:176-186. A promise is always truthy, so !cache[url] is "no entry".
getAndCache(url, options, force) ==
    getAndCacheWith(url, options, force, force \/ cache[url] = 0, TRUE)

InitCache ==
    /\ cache = [u \in Urls |-> 0]
    /\ reqs = <<>>
    /\ fetches = <<>>
    /\ calls = <<>>

Init ==
    /\ InitCache
    /\ tw = Idle /\ tk = Idle /\ pp = Idle /\ jp = Idle /\ pa = Idle

\* The cache and its callers: getAndCache() is called with the default
\* request options, and the fetches settle in any order.
Next ==
    \/ \E u \in Urls, f \in BOOLEAN :
          getAndCache(u, DefaultOptions, f) /\ UNCHANGED <<tw, tk, pp, jp, pa>>
    \/ \E r \in 1..Len(reqs), resp \in CacheResponses :
          Respond(r, resp) /\ UNCHANGED <<tw, tk, pp, jp, pa>>
    \/ \E r \in 1..Len(reqs) :
          FetchFails(r) /\ UNCHANGED <<tw, tk, pp, jp, pa>>

Spec == Init /\ [][Next]_vars

(***************************************************************************)
(* Claims about the cache.  A call record keeps what the caller saw: the   *)
(* entry found (0: none), whether that entry was still in flight, whether  *)
(* the call issued a fetch, and the promise returned.                      *)
(***************************************************************************)
CallIds == 1..Len(calls)

\* The outcome a caller settles with is the outcome of the promise it holds.
Outcome(c) ==
    LET q == reqs[calls[c].promise] IN <<q.state, q.kind, q.from, q.status>>

\* The calls i..j on the url of call i.
Between(i, j) == {k \in i..j : calls[k].url = calls[i].url}

\* C1: a non-forced call on a url without entry issues one fetch, and every
\* non-forced call on that url made while that fetch is in flight issues
\* none, gets the same promise and so settles with the same outcome.
C1_OneFetchForConcurrentCallers ==
    \A i \in CallIds :
        (~calls[i].force /\ calls[i].entry = 0) =>
            /\ calls[i].issued
            /\ \E f \in 1..Len(fetches) :
                  fetches[f].call = i /\ fetches[f].url = calls[i].url
            /\ \A j \in CallIds :
                  ( /\ i < j
                    /\ calls[j].url = calls[i].url
                    /\ calls[j].pending
                    /\ \A k \in Between(i, j) : ~calls[k].force )
                  => /\ ~calls[j].issued
                     /\ calls[j].promise = calls[i].promise
                     /\ Cardinality({k \in Between(i, j) : calls[k].issued}) = 1
                     /\ Cardinality({f \in 1..Len(fetches) :
                            /\ fetches[f].first
                            /\ reqs[fetches[f].req].via = "getAndCache"
                            /\ fetches[f].url = calls[i].url
                            /\ fetches[f].call \in i..j}) = 1
                     /\ Outcome(j) = Outcome(i)

\* Three concurrent callers of one url hold one promise, which has settled.
C1_Witness ==
    \E i, j, k \in CallIds :
        /\ i < j /\ j < k
        /\ calls[i].entry = 0 /\ ~calls[i].force
        /\ calls[j].url = calls[i].url /\ calls[k].url = calls[i].url
        /\ ~calls[j].force /\ ~calls[k].force
        /\ calls[j].pending /\ calls[k].pending
        /\ calls[k].promise = calls[i].promise
        /\ reqs[calls[i].promise].state = "fulfilled"

\* The calls of getAndCache() on url u, and the fetches those calls issued.
CallsOn(u) == {k \in CallIds : calls[k].url = u}

IssuedFor(u) ==
    {f \in 1..Len(fetches) : fetches[f].call # 0 /\ calls[fetches[f].call].url = u}

\* A step that is a call of getAndCache(u, options, force).
IsCall(u, force) ==
    /\ Len(calls') = Len(calls) + 1
    /\ calls'[Len(calls')].url = u
    /\ calls'[Len(calls')].force = force

\* C2, the state part: while no call on a url is forced, at most one fetch
\* is issued for it, every caller holds the promise of that fetch, and a
\* call that finds a settled entry (fulfilled or rejected) issues no fetch.
C2_State ==
    \A u \in Urls :
        (\A k \in CallsOn(u) : ~calls[k].force) =>
            /\ Cardinality(IssuedFor(u)) <= 1
            /\ \A i, j \in CallsOn(u) :
                  /\ calls[i].promise = calls[j].promise
                  /\ Outcome(i) = Outcome(j)
            /\ \A j \in CallsOn(u) :
                  calls[j].entry # 0 => ~calls[j].issued /\ calls[j].promise = calls[j].entry

\* C2, the step part: an entry is never removed, and only a forced call on
\* its url replaces it.
C2_Step ==
    \A u \in Urls :
        (cache[u] # 0 /\ cache'[u] # cache[u]) => (cache'[u] # 0 /\ IsCall(u, TRUE))

\* C2: across calls without force at most one fetch per url is ever issued,
\* and an entry, once there, stays whatever its outcome.
C2_AtMostOneFetchPerUrl == []C2_State /\ [][C2_Step]_vars

\* A call made after the fetch of its url failed holds the failed promise.
C2_Witness ==
    \E i, j \in CallIds :
        /\ i < j /\ calls[j].url = calls[i].url
        /\ \A k \in CallsOn(calls[i].url) : ~calls[k].force
        /\ calls[j].entry # 0 /\ ~calls[j].pending
        /\ reqs[calls[j].promise].state = "rejected"
        /\ Cardinality(IssuedFor(calls[i].url)) = 1

\* The latest forced call on the url of call j made before it (0: none).
LastForced(j) ==
    LET F == {k \in 1..(j - 1) : calls[k].url = calls[j].url /\ calls[k].force}
    IN IF F = {} THEN 0 ELSE CHOOSE k \in F : \A m \in F : m <= k

\* C3, the state part: a forced call has issued a fetch of its own, and a
\* non-forced call after a forced one holds the promise of the latest
\* forced call before it, whichever of the fetches have settled.
C3_State ==
    /\ \A k \in CallIds :
          calls[k].force =>
              /\ calls[k].issued
              /\ \E f \in 1..Len(fetches) :
                    /\ fetches[f].call = k /\ fetches[f].url = calls[k].url
                    /\ fetches[f].req = calls[k].promise
              /\ \A m \in 1..(k - 1) : calls[m].promise # calls[k].promise
    /\ \A j \in CallIds :
          (~calls[j].force /\ LastForced(j) # 0) =>
              /\ ~calls[j].issued
              /\ calls[j].promise = calls[LastForced(j)].promise
              /\ Outcome(j) = Outcome(LastForced(j))

\* C3, the step part: a forced call on u issues a fetch and makes its
\* promise the entry of u, and a call on u leaves the other entries alone.
C3_Step ==
    \A u \in Urls :
        /\ IsCall(u, TRUE) =>
              /\ Len(fetches') = Len(fetches) + 1
              /\ Len(reqs') = Len(reqs) + 1
              /\ cache'[u] = Len(reqs')
              /\ reqs'[cache'[u]].state = "pending"
        /\ (IsCall(u, TRUE) \/ IsCall(u, FALSE)) =>
              \A w \in Urls \ {u} : cache'[w] = cache[w]

\* C3: force always fetches anew and replaces the entry of that url only;
\* later non-forced calls see the most recent forced fetch.
C3_ForceRefreshes == []C3_State /\ [][C3_Step]_vars

\* A forced call made while an earlier fetch is in flight, the forced fetch
\* settled first, and a later caller holding the forced promise.
C3_Witness ==
    \E i, k, j \in CallIds :
        /\ i < k /\ k < j
        /\ calls[k].url = calls[i].url /\ calls[j].url = calls[i].url
        /\ calls[k].force /\ calls[k].pending /\ ~calls[j].force
        /\ reqs[calls[i].promise].state = "pending"
        /\ reqs[calls[k].promise].state # "pending"
        /\ calls[j].promise = calls[k].promise
        /\ cache[calls[i].url] = calls[k].promise

\* The pipeline alone: request() called directly with any options.
NextRequest ==
    \/ \E u \in Urls, o \in Options :
          request(u, o) /\ UNCHANGED <<tw, tk, pp, jp, pa>>
    \/ \E r \in 1..Len(reqs), resp \in Responses :
          Respond(r, resp) /\ UNCHANGED <<tw, tk, pp, jp, pa>>
    \/ \E r \in 1..Len(reqs) :
          FetchFails(r) /\ UNCHANGED <<tw, tk, pp, jp, pa>>

SpecRequest == Init /\ [][NextRequest]_vars

(***************************************************************************)
(* Claims about request().  A fetch record keeps the response it got.      *)
(***************************************************************************)
\* The fetches of request r, in order of issue.
ChainOf(r) == {f \in 1..Len(fetches) : fetches[f].req = r}

\* The fetch of request r issued next after fetch f (0: none).
NextInChain(f) ==
    LET later == {g \in ChainOf(fetches[f].req) : g > f}
    IN IF later = {} THEN 0 ELSE CHOOSE g \in later : \A h \in later : g <= h

\* A response with status 201, an empty body and a Location header.
CreatedElsewhere(resp) ==
    resp.status = 201 /\ resp.text = "" /\ resp.location # NoLocation

\* C4: every response with status 201, an empty body and a Location header
\* is followed by a GET of that location without body and with the other
\* options kept, and the request resolves with the result of the last fetch
\* of the chain: k such responses make k + 1 fetches.
C4_FollowsLocation ==
    \A f \in 1..Len(fetches) :
        CreatedElsewhere(fetches[f].resp) =>
            LET g == NextInChain(f) IN
            /\ g # 0
            /\ fetches[g].url = fetches[f].resp.location
            /\ fetches[g].method = "GET"
            /\ ~fetches[g].body
            /\ fetches[g].headers = fetches[f].headers
            /\ LET q == reqs[fetches[f].req] IN
                  q.state # "pending" =>
                      /\ q.from = q.last /\ q.from > f
                      /\ q.n = 1 + Cardinality({h \in ChainOf(fetches[f].req) :
                                      CreatedElsewhere(fetches[h].resp)})
                      /\ (q.state = "fulfilled" /\ q.options.includeResponse)
                             => q.kind = "bodyAndResponse"

\* A POST answered by two such responses in a row and then a document: three
\* fetches, the result is that of the third.
C4_Witness ==
    \E r \in 1..Len(reqs) :
        /\ reqs[r].state = "fulfilled" /\ reqs[r].n = 3
        /\ reqs[r].from = reqs[r].last
        /\ \E f \in ChainOf(r) :
              /\ fetches[f].first /\ fetches[f].method = "POST"
              /\ CreatedElsewhere(fetches[f].resp)

\* The fetches that have been answered with a status outside 200-299.
FailedFetches ==
    {f \in 1..Len(fetches) :
        fetches[f].resp # NoResponse /\ ~ok(fetches[f].resp)}

\* C13: when a fetch of request (the first one or a Location follow-up) is
\* answered with a non-success status, the promise of request is rejected
\* with an HttpError carrying that status, that fetch is the last one of the
\* request (no retry, and no follow-up of a Location header in the failing
\* response), and a body of the failing response that cannot be parsed does
\* not replace or suppress the HttpError.
C13_FailsWithHttpError ==
    \A f \in FailedFetches :
        LET q == reqs[fetches[f].req] IN
        /\ q.state = "rejected"
        /\ q.kind = "HttpError"
        /\ q.status = fetches[f].resp.status
        /\ q.from = f /\ q.last = f
        /\ NextInChain(f) = 0
        /\ q.n = Cardinality(ChainOf(fetches[f].req))

\* A POST answered 201 with a Location, whose follow-up GET is answered 404
\* with a Location header and a JSON content type on an empty body (a body
\* that does not parse): two fetches, rejected with the HttpError of the 404.
C13_Witness ==
    \E f \in FailedFetches :
        LET q == reqs[fetches[f].req] IN
        /\ ~fetches[f].first /\ q.n = 2
        /\ fetches[f].resp.status = 404
        /\ fetches[f].resp.location # NoLocation
        /\ parseBody(fetches[f].resp).t = "throw"
        /\ q.state = "rejected" /\ q.kind = "HttpError" /\ q.status = 404

(***************************************************************************)
(* The target window resolver: getTargetWindow (part_000:499-600).         *)
(*                                                                         *)
(* A target is a JavaScript value: k is its typeof ("null" for null, which *)
(* is falsy though its typeof is "object"), v the string or the name of    *)
(* the window object.  A function target has a behaviour: it returns res   *)
(* ("return"), returns a promise fulfilled with res ("resolve"), throws    *)
(* ("throw") or returns a promise that rejects ("reject").                 *)
(***************************************************************************)
Plain(k, v) == [k |-> k, v |-> v, beh |-> "", res |-> <<>>]

Fn(beh, res) == [k |-> "function", v |-> "", beh |-> beh, res |-> res]

TargetStrings == {"_self", "_parent", "_top", "_blank", "popup", "frame1", "nosuch"}

\* The names of the frames of the current window.
FrameNames == {"frame1"}

PlainTargets ==
    {Plain("string", str) : str \in TargetStrings}
        \cup {Plain("object", "w1"), Plain("number", "5"), Plain("boolean", "true"),
              Plain("null", ""), Plain("undefined", "")}

FnOver(T) ==
    {Fn(b, <<t>>) : b \in {"return", "resolve"}, t \in T}
        \cup {Fn(b, <<>>) : b \in {"throw", "reject"}}

Targets ==
    PlainTargets \cup
    FnOver(PlainTargets \cup FnOver({Plain("string", "_parent"), Plain("object", "w1")}))

\* The browser around the call: what window.open does, and whether `top` is set.
OpenBehaviours == {"window", "null", "throws"}

Envs == [open : OpenBehaviours, top : BOOLEAN]

\* part_000:539-555 and 560-589: window.open inside try/catch; a null result
\* is turned into an error, and any error falls back to self.
openOrSelfNoCatch(env) ==
    CASE env.open = "window" -> "opened"
      [] env.open = "null" -> "self"
      [] OTHER -> "throw"

openOrSelf(env) ==
    CASE env.open = "window" -> "opened"
      [] env.open = "null" -> "self"
      [] OTHER -> "self"

\* part_000:511-599: the window for a target that is not awaited any more.
targetWindow(target, env) ==
    CASE target.k = "object" -> target.v
      [] target.k # "object" /\ target.k # "string" -> "self"
      [] target.k = "string" /\ target.v = "_self" -> "self"
      [] target.k = "string" /\ target.v = "_parent" -> "parent"
      [] target.k = "string" /\ target.v = "_top" ->
            IF env.top THEN "top" ELSE "self"
      [] target.k = "string" /\ target.v = "_blank" -> openOrSelf(env)
      [] target.k = "string" /\ target.v = "popup" -> openOrSelf(env)
      [] OTHER -> IF target.v \in FrameNames THEN target.v ELSE "self"

\* Whether resolving the target calls window.open.
opensWindow(target) ==
    target.k = "string" /\ target.v \in {"_blank", "popup"}

\* The settled promise of getTargetWindow for the window (or "throw") w.
settleWith(run, target, w) ==
    [run EXCEPT !.pc = "done",
                !.outcome = IF w = "throw" THEN "rejected" ELSE "resolved",
                !.result = IF w = "throw" THEN "" ELSE w,
                !.error = IF w = "throw" THEN "open" ELSE "",
                !.opens = IF opensWindow(target) THEN 1 ELSE 0]

InitWindow ==
    \E target \in Targets, env \in Envs :
        tw = [pc |-> "start", target |-> target, env |-> env, awaited |-> <<>>,
              outcome |-> "pending", result |-> "", error |-> "",
              invoked |-> 0, opens |-> 0]

\* part_000:499-509: the call runs up to its first await, or to its end when
\* the target is no function.  A throwing function rejects the promise.
enterTargetWindow ==
    /\ tw.pc = "start"
    /\ tw' = IF tw.target.k = "function"
             THEN IF tw.target.beh = "throw"
                  THEN [tw EXCEPT !.pc = "done", !.outcome = "rejected",
                                  !.error = "target", !.invoked = 1]
                  ELSE [tw EXCEPT !.pc = "awaiting", !.invoked = 1,
                                  !.awaited = IF tw.target.beh = "reject"
                                              THEN <<>> ELSE tw.target.res]
             ELSE settleWith(tw, tw.target, targetWindow(tw.target, tw.env))

\* A slip that drops the awaited result and goes on with the target given.
resumeTargetWindowAsGiven ==
    /\ tw.pc = "awaiting"
    /\ tw' = IF tw.awaited = <<>>
             THEN [tw EXCEPT !.pc = "done", !.outcome = "rejected", !.error = "target"]
             ELSE settleWith(tw, tw.target, targetWindow(tw.target, tw.env))

\* part_000:508: the awaited result arrives: a rejection rejects the promise,
\* a value becomes the target and lines 511-599 run on it.
resumeTargetWindow ==
    /\ tw.pc = "awaiting"
    /\ tw' = IF tw.awaited = <<>>
             THEN [tw EXCEPT !.pc = "done", !.outcome = "rejected", !.error = "target"]
             ELSE settleWith(tw, tw.awaited[1], targetWindow(tw.awaited[1], tw.env))

NextWindow ==
    \/ enterTargetWindow /\ UNCHANGED <<cacheVars, tk, pp, jp, pa>>
    \/ resumeTargetWindow /\ UNCHANGED <<cacheVars, tk, pp, jp, pa>>

StartWindow ==
    /\ InitCache /\ InitWindow
    /\ tk = Idle /\ pp = Idle /\ jp = Idle /\ pa = Idle

SpecWindow == StartWindow /\ [][NextWindow]_vars

\* The target that lines 511-599 see: the target itself, or what the
\* function target produced.
Effective(run) ==
    IF run.target.k = "function" THEN run.target.res[1] ELSE run.target

\* A function target that throws or whose promise rejects.
FailingFunction(target) ==
    target.k = "function" /\ target.beh \in {"throw", "reject"}

\* The targets that cannot be reached: not a window and not a string, a
\* blocked or failing window.open, a missing top, an unknown frame name.
Unreachable(target, env) ==
    \/ target.k \notin {"object", "string"}
    \/ opensWindow(target) /\ env.open # "window"
    \/ target.k = "string" /\ target.v = "_top" /\ ~env.top
    \/ target.k = "string" /\ target.v \notin (FrameNames \cup
            {"_self", "_parent", "_top", "_blank", "popup"})

\* C5 as claimed: getTargetWindow never fails, whatever the target (a
\* throwing or rejecting function included) and whatever window.open does.
C5_NeverFails == tw.pc # "idle" => tw.outcome # "rejected"

\* C5 as amended: getTargetWindow fails only when the target is a function
\* that throws or whose promise rejects; for every other target and every
\* behaviour of window.open it resolves, and to the current window whenever
\* the target cannot be reached.
C5_FailsOnlyWithTargetFunction ==
    tw.pc = "done" =>
        /\ tw.outcome = "rejected" <=> FailingFunction(tw.target)
        /\ tw.outcome = "rejected" => tw.error = "target"
        /\ tw.outcome = "resolved" =>
              /\ tw.result # ""
              /\ Unreachable(Effective(tw), tw.env) => tw.result = "self"

\* "popup" with a window.open that throws has resolved to the current window.
C5_Witness ==
    /\ tw.pc = "done" /\ tw.outcome = "resolved" /\ tw.result = "self"
    /\ tw.target = Plain("string", "popup") /\ tw.env.open = "throws"
    /\ tw.opens = 1

\* A function target that produces a result, at once or through a promise.
Producing(target) ==
    target.k = "function" /\ target.beh \in {"return", "resolve"}

\* What a call getTargetWindow(target) settles to in the browser env: the
\* window it resolves to, or "throw" when it rejects.  A function target is
\* invoked and lines 511-599 run on what it produced.
ResolvesTo(target, env) ==
    CASE Producing(target) -> targetWindow(target.res[1], env)
      [] FailingFunction(target) -> "throw"
      [] OTHER -> targetWindow(target, env)

\* C12 as claimed: a function target is invoked exactly once, its result is
\* awaited, and the call resolves to exactly the window getTargetWindow
\* resolves to when called with that result, whatever the result is: a
\* window, a target string or another function (one that does not fail, so
\* that there is a window to compare with).
C12_ResolvesAsItsResult ==
    /\ (tw.pc = "awaiting") => (tw.invoked = 1 /\ tw.outcome = "pending")
    /\ (tw.pc = "done" /\ Producing(tw.target)
            /\ ~FailingFunction(tw.target.res[1])) =>
          /\ tw.invoked = 1
          /\ tw.outcome = "resolved"
          /\ tw.result = ResolvesTo(tw.target.res[1], tw.env)

\* C12 as amended: a function target is invoked exactly once, its result is
\* awaited, and for a result that is not a function the call resolves to
\* exactly the window getTargetWindow resolves to when called with that
\* result; a result that is itself a function is not invoked and the call
\* resolves to the current window.
C12_ResolvesAsItsPlainResult ==
    /\ (tw.pc = "awaiting") => (tw.invoked = 1 /\ tw.outcome = "pending")
    /\ (tw.pc = "done" /\ Producing(tw.target)) =>
          /\ tw.invoked = 1
          /\ tw.outcome = "resolved"
          /\ tw.result = IF tw.target.res[1].k = "function"
                         THEN "self"
                         ELSE ResolvesTo(tw.target.res[1], tw.env)

\* A function whose promise resolves to "popup" has been invoked once and
\* the call has resolved to the window that window.open returned.
C12_Witness ==
    /\ tw.pc = "done" /\ tw.outcome = "resolved"
    /\ tw.target = Fn("resolve", <<Plain("string", "popup")>>)
    /\ tw.env.open = "window"
    /\ tw.invoked = 1 /\ tw.result = "opened"

\* A function that returns a function returning "_parent" has resolved to
\* the current window, the inner function not invoked.
C12_WitnessFunction ==
    /\ tw.pc = "done" /\ tw.outcome = "resolved"
    /\ tw.target = Fn("return", <<Fn("return", <<Plain("string", "_parent")>>)>>)
    /\ tw.invoked = 1 /\ tw.result = "self"

(***************************************************************************)
(* The token lifecycle: jwtDecode (part_000:320-326) and                   *)
(* getAccessTokenExpiration (part_000:348-369).                            *)
(*                                                                         *)
(* A token string is kept as the sequence of its dot-separated segments,   *)
(* what token.split(".") returns; the empty string is <<"">>.  The second  *)
(* segment goes through atob and JSON.parse, both given as tables over the *)
(* segments and texts of the model.                                        *)
(***************************************************************************)
\* Second segments: the base64 of {}, {"exp":500}, {"exp":0}, null, true and
\* foo, a text that is no base64, and the empty segment.
Payloads ==
    {"e30", "eyJleHAiOjUwMH0", "eyJleHAiOjB9", "bnVsbA", "dHJ1ZQ", "Zm9v", "!!!", ""}

Tokens ==
    {<<"">>, <<"opaque">>}
        \cup {<<"hdr", p>> : p \in Payloads}
        \cup {<<"hdr", p, "sig">> : p \in Payloads}

\* env.atob: the decoded text.  A text that is no base64 makes the browser's
\* atob throw, and the Buffer based decoder of the node adapter return
\* garbage; strict tells the two.
atob(payload, strict) ==
    CASE payload = "e30" -> [t |-> "string", s |-> "{}"]
      [] payload = "eyJleHAiOjUwMH0" -> [t |-> "string", s |-> "{\"exp\":500}"]
      [] payload = "eyJleHAiOjB9" -> [t |-> "string", s |-> "{\"exp\":0}"]
      [] payload = "bnVsbA" -> [t |-> "string", s |-> "null"]
      [] payload = "dHJ1ZQ" -> [t |-> "string", s |-> "true"]
      [] payload = "Zm9v" -> [t |-> "string", s |-> "foo"]
      [] payload = "" -> [t |-> "string", s |-> ""]
      [] OTHER -> IF strict THEN [t |-> "throw", s |-> "InvalidCharacterError"]
                  ELSE [t |-> "string", s |-> "garbage"]

\* JSON.parse on the decoded text: the claims, with exp as a sequence of at
\* most one number; a text that is no JSON document throws.
parseClaims(text) ==
    CASE text = "{}" -> [t |-> "object", exp |-> <<>>]
      [] text = "{\"exp\":500}" -> [t |-> "object", exp |-> <<500>>]
      [] text = "{\"exp\":0}" -> [t |-> "object", exp |-> <<0>>]
      [] text = "null" -> [t |-> "null", exp |-> <<>>]
      [] text = "true" -> [t |-> "boolean", exp |-> <<>>]
      [] OTHER -> [t |-> "throw", exp |-> <<>>]

\* part_000:324: token.split(".")[1], as a sequence of at most one segment.
secondSegment(token) == IF Len(token) >= 2 THEN <<token[2]>> ELSE <<>>

\* part_000:320-326.  An absent or empty second segment is falsy and gives
\* null; an error of atob or JSON.parse is not caught.
jwtDecode(token, strict) ==
    LET payload == secondSegment(token) IN
    IF payload = <<>> \/ payload = <<"">>
    THEN [t |-> "null", exp |-> <<>>]
    ELSE LET text == atob(payload[1], strict) IN
         IF text.t = "throw" THEN [t |-> "throw", exp |-> <<>>]
         ELSE parseClaims(text.s)

\* A token response: expires_in and access_token are sequences of at most
\* one value (empty: the property is absent).
TokenResponses ==
    [expires_in : {<<>>, <<0>>, <<60>>, <<3600>>},
     access_token : {<<>>} \cup {<<tok>> : tok \in Tokens}]

\* Math.floor(Date.now() / 1000) at the time of the call.
Nows == {1000, 1001}

FallbackSeconds == 300

\* part_000:348-369.  expires_in counts when truthy (not 0), the token when
\* it is a non-empty string, exp when truthy (not 0).
getAccessTokenExpiration(tokenResponse, strict, now) ==
    IF tokenResponse.expires_in # <<>> /\ tokenResponse.expires_in[1] # 0
    THEN [t |-> "number", n |-> now + tokenResponse.expires_in[1]]
    ELSE LET tokenBody ==
                 IF tokenResponse.access_token \notin {<<>>, << <<"">> >>}
                 THEN jwtDecode(tokenResponse.access_token[1], strict)
                 ELSE [t |-> "null", exp |-> <<>>]
         IN CASE tokenBody.t = "throw" -> [t |-> "throw", n |-> 0]
              [] tokenBody.t = "object" /\ tokenBody.exp # <<>> /\ tokenBody.exp # <<0>> ->
                    [t |-> "number", n |-> tokenBody.exp[1]]
              [] OTHER -> [t |-> "number", n |-> now + FallbackSeconds]

InitToken ==
    \E fn \in {"jwtDecode", "getAccessTokenExpiration"}, token \in Tokens,
       tokenResponse \in TokenResponses, strict \in BOOLEAN, now \in Nows :
        /\ fn = "jwtDecode" => tokenResponse = [expires_in |-> <<>>, access_token |-> <<>>]
        /\ fn = "jwtDecode" => now = 1000
        /\ fn = "getAccessTokenExpiration" => token = <<"">>
        /\ tk = [pc |-> "start", fn |-> fn, token |-> token,
                 tokenResponse |-> tokenResponse, strict |-> strict, now |-> now,
                 claims |-> [t |-> "", exp |-> <<>>], expires |-> [t |-> "", n |-> 0]]

callJwtDecode ==
    /\ tk.pc = "start" /\ tk.fn = "jwtDecode"
    /\ tk' = [tk EXCEPT !.pc = "done", !.claims = jwtDecode(tk.token, tk.strict)]

callGetAccessTokenExpiration ==
    /\ tk.pc = "start" /\ tk.fn = "getAccessTokenExpiration"
    /\ tk' = [tk EXCEPT !.pc = "done",
                        !.expires = getAccessTokenExpiration(
                                        tk.tokenResponse, tk.strict, tk.now)]

NextToken ==
    \/ callJwtDecode /\ UNCHANGED <<cacheVars, tw, pp, jp, pa>>
    \/ callGetAccessTokenExpiration /\ UNCHANGED <<cacheVars, tw, pp, jp, pa>>

StartToken ==
    /\ InitCache /\ InitToken
    /\ tw = Idle /\ pp = Idle /\ jp = Idle /\ pa = Idle

SpecToken == StartToken /\ [][NextToken]_vars

\* The claims in the second segment of a token, read independently of the
\* code: a sequence holding the document when the segment is there and is
\* the base64 of a JSON object, empty otherwise.
DecodableClaims(token) ==
    IF Len(token) < 2 THEN <<>>
    ELSE CASE token[2] = "e30" -> << [exp |-> <<>>] >>
           [] token[2] = "eyJleHAiOjUwMH0" -> << [exp |-> <<500>>] >>
           [] token[2] = "eyJleHAiOjB9" -> << [exp |-> <<0>>] >>
           [] OTHER -> <<>>

\* What C6 says getAccessTokenExpiration returns.
C6_Expected(tokenResponse, now) ==
    IF tokenResponse.expires_in # <<>>
    THEN now + tokenResponse.expires_in[1]
    ELSE LET claimsOf == IF tokenResponse.access_token = <<>> THEN <<>>
                         ELSE DecodableClaims(tokenResponse.access_token[1])
         IN IF claimsOf # <<>> /\ claimsOf[1].exp # <<>>
            THEN claimsOf[1].exp[1]
            ELSE now + FallbackSeconds

\* C6: getAccessTokenExpiration returns now + expires_in when expires_in is
\* present, else the exp claim of a decodable token, else now + 300; it
\* returns for every token response.
C6_ExpirationByPriority ==
    (tk.pc = "done" /\ tk.fn = "getAccessTokenExpiration") =>
        /\ tk.expires.t = "number"
        /\ tk.expires.n = C6_Expected(tk.tokenResponse, tk.now)

\* C7: jwtDecode never raises: null without a second segment, the decoded
\* claims otherwise, and no error for a segment that does not decode.
C7_JwtDecodeNeverFails ==
    (tk.pc = "done" /\ tk.fn = "jwtDecode") =>
        /\ tk.claims.t # "throw"
        /\ Len(tk.token) < 2 => tk.claims.t = "null"
        /\ DecodableClaims(tk.token) # <<>> =>
              /\ tk.claims.t = "object"
              /\ tk.claims.exp = DecodableClaims(tk.token)[1].exp

(***************************************************************************)
(* JavaScript values for the path accessor and the functions built on it.  *)
(*                                                                         *)
(* A value is a record: t its type, s the text of a primitive, ks the own  *)
(* property names of an object or array in order of insertion and cs the   *)
(* values under those names.  An array is an object of type "array" whose  *)
(* index properties are named "0", "1", ...; a missing index is a hole.    *)
(* "throw" stands for a raised error.                                      *)
(***************************************************************************)
Val(t, str) == [t |-> t, s |-> str, ks |-> <<>>, cs |-> <<>>]

Undef == Val("undefined", "")

Null == Val("null", "")

Num(str) == Val("number", str)

Str(str) == Val("string", str)

Bool(str) == Val("boolean", str)

Throw(str) == Val("throw", str)

Obj(ks, cs) == [t |-> "object", s |-> "", ks |-> ks, cs |-> cs]

\* The names of the array indexes the model knows, in order: IndexKeys[i + 1]
\* is the name of index i.
IndexKeys == <<"0", "1", "2", "3">>

Arr(cs) == [t |-> "array", s |-> "", ks |-> SubSeq(IndexKeys, 1, Len(cs)), cs |-> cs]

\* /^[0-9]+$/ on a path segment.
isDigits(key) == \E i \in 1..Len(IndexKeys) : IndexKeys[i] = key

isContainer(v) == v.t \in {"object", "array"}

\* The truthiness of JavaScript: what `result &&` and `!obj` test.
truthy(v) ==
    \/ isContainer(v)
    \/ v.t = "boolean" /\ v.s = "true"
    \/ v.t = "number" /\ v.s \notin {"0", "NaN"}
    \/ v.t = "string" /\ v.s # ""

\* The position of key among the own properties of v (0: not there).
keyIndex(v, key) ==
    IF \E i \in 1..Len(v.ks) : v.ks[i] = key
    THEN CHOOSE i \in 1..Len(v.ks) : v.ks[i] = key
    ELSE 0

\* v[key] for a truthy v: an own property of an object or array, the one
\* character of a one character string at index 0, undefined otherwise.
prop(v, key) ==
    CASE isContainer(v) ->
            IF keyIndex(v, key) = 0 THEN Undef ELSE v.cs[keyIndex(v, key)]
      [] v.t = "string" /\ key = "0" /\ v.s # "" -> v
      [] OTHER -> Undef

\* v[key] = val for a truthy v, in strict mode: an object or array takes the
\* property, a primitive raises a TypeError.
putProp(v, key, val) ==
    IF isContainer(v)
    THEN IF keyIndex(v, key) = 0
         THEN [v EXCEPT !.ks = Append(v.ks, key), !.cs = Append(v.cs, val)]
         ELSE [v EXCEPT !.cs[keyIndex(v, key)] = val]
    ELSE Throw("TypeError")

(***************************************************************************)
(* The path accessor: getPath (part_000:216-235), setPath (245-265).       *)
(* A path is kept as the sequence of its dot-separated segments, what      *)
(* path.split(".") returns: the empty path is <<"">>.                      *)
(***************************************************************************)
\* String.prototype.trim on a path: it strips the white space before the
\* first segment and after the last one.
ltrim(seg) == CASE seg = " b" -> "b" [] seg = " " -> "" [] OTHER -> seg

rtrim(seg) == CASE seg = " " -> "" [] OTHER -> seg

trim(segs) ==
    IF Len(segs) = 0 THEN <<"">>
    ELSE IF Len(segs) = 1 THEN <<rtrim(ltrim(segs[1]))>>
    ELSE <<ltrim(segs[1])>> \o SubSeq(segs, 2, Len(segs) - 1)
            \o <<rtrim(segs[Len(segs)])>>

\* The elements of Array.prototype.map over array v: the index properties
\* in index order; holes stay holes and named properties are not copied.
indexProps(v) == SelectSeq(IndexKeys, LAMBDA k : keyIndex(v, k) # 0)

RECURSIVE getPath(_, _)
RECURSIVE getPathWalk(_, _)
\* part_000:225-234: the loop over the segments.
getPathWalk(result, segments) ==
    IF ~truthy(result) \/ segments = <<>>
    THEN result
    ELSE LET key == Head(segments) IN
         IF key = "" /\ result.t = "array"
         THEN LET idx == indexProps(result) IN
              [t |-> "array", s |-> "", ks |-> idx,
               cs |-> [i \in 1..Len(idx) |->
                          getPath(prop(result, idx[i]), Tail(segments))]]
         ELSE getPathWalk(prop(result, key), Tail(segments))

\* part_000:216-235.  An empty sequence is the join of no segments: "".
getPath(obj, path) ==
    IF trim(path) = <<"">>
    THEN obj
    ELSE getPathWalk(obj, trim(path))

\* part_000:259: the container made for a missing intermediate.
emptyFor(next) == IF isDigits(next) THEN Arr(<<>>) ELSE Obj(<<>>, <<>>)

RECURSIVE setPathReduce(_, _, _, _)
\* part_000:254-263: one round of the reduce on `out` and what follows it,
\* as the value of `out` after the writes (or the error raised).
setPathReduce(out, segments, value, createEmpty) ==
    IF ~truthy(out)
    THEN out
    ELSE IF Len(segments) = 1
    THEN putProp(out, segments[1], value)
    ELSE LET key == segments[1]
             made == IF prop(out, key).t = "undefined" /\ createEmpty
                     THEN putProp(out, key, emptyFor(segments[2]))
                     ELSE out
         IN IF made.t = "throw" THEN made
            ELSE LET child == prop(made, key)
                     after == setPathReduce(child, Tail(segments), value, createEmpty)
                 IN IF after.t = "throw" THEN after
                    ELSE IF isContainer(child) THEN putProp(made, key, after)
                    ELSE made

\* A slip that writes at the first segment whatever the path.
setPathShallow(obj, path, value, createEmpty) ==
    putProp(obj, trim(path)[1], value)

\* part_000:245-265: the object after the call, or the error raised.
setPath(obj, path, value, createEmpty) ==
    setPathReduce(obj, trim(path), value, createEmpty)

MaxPathLen == 3     \* segments of a path

\* The primitives: undefined, null, 0, 7, "", "x", false, true.
Leaves ==
    {Undef, Null, Num("0"), Num("7"), Str(""), Str("x"), Bool("false"), Bool("true")}

\* Nested structures, by depth.
Inner ==
    Leaves \cup {Obj(<<>>, <<>>), Arr(<<>>)}
        \cup {Obj(<<k>>, <<l>>) : k \in {"a", "b"}, l \in {Undef, Null, Num("7")}}
        \cup {Arr(<<l>>) : l \in {Null, Num("7"), Str("x")}}

Middle ==
    Inner \cup {Obj(<<"b">>, <<i>>) : i \in {j \in Inner : isContainer(j)}}
        \cup {Arr(<<Obj(<<"b">>, <<Num("7")>>), Obj(<<"a">>, <<Str("x")>>)>>),
              Arr(<<Obj(<<"b">>, <<Num("0")>>), Null>>)}

Roots ==
    {Obj(<<"a">>, <<x>>) : x \in Middle}
        \cup {Arr(<<x>>) : x \in {j \in Inner : isContainer(j)}}
        \cup {Obj(<<"b", "a">>, <<Num("7"), x>>) : x \in {Obj(<<>>, <<>>), Arr(<<>>)}}
        \cup {Obj(<<>>, <<>>), Arr(<<>>)}

Segments == {"a", "b", "0", ""}

\* The paths: up to MaxPathLen segments, and three paths with white space.
Paths ==
    UNION {[1..n -> Segments] : n \in 1..MaxPathLen}
        \cup {<<" ">>, <<" b">>, <<"a", "", " b">>}

Values == {Num("7"), Obj(<<"b">>, <<Null>>)}

InitPath ==
    \E obj \in Roots, path \in Paths, value \in Values, createEmpty \in BOOLEAN :
        pa = [pc |-> "start", obj |-> obj, root |-> obj, path |-> path,
              value |-> value, createEmpty |-> createEmpty,
              wrote |-> FALSE, read |-> FALSE, result |-> Undef]

\* setPath(obj, path, value, createEmpty): obj is mutated in place; an error
\* ends the run.
callSetPath ==
    /\ pa.pc = "start"
    /\ LET after == setPath(pa.obj, pa.path, pa.value, pa.createEmpty) IN
       pa' = IF after.t = "throw"
             THEN [pa EXCEPT !.pc = "done", !.result = after]
             ELSE [pa EXCEPT !.pc = "written", !.obj = after, !.wrote = TRUE]

\* getPath(obj, path), on the object as it is or after setPath.
callGetPath ==
    /\ pa.pc \in {"start", "written"}
    /\ pa.createEmpty = FALSE \/ pa.pc = "written"
    /\ pa' = [pa EXCEPT !.pc = "done", !.read = TRUE,
                        !.result = getPath(pa.obj, pa.path)]

NextPath ==
    \/ callSetPath /\ UNCHANGED <<cacheVars, tw, tk, pp, jp>>
    \/ callGetPath /\ UNCHANGED <<cacheVars, tw, tk, pp, jp>>

StartPath ==
    /\ InitCache /\ InitPath
    /\ tw = Idle /\ tk = Idle /\ pp = Idle /\ jp = Idle

SpecPath == StartPath /\ [][NextPath]_vars

\* A valid dotted path: every segment is a property name or an index.
ValidPath(segs) == \A i \in 1..Len(segs) : segs[i] \in {"a", "b", "0"}

\* C10 as claimed: after setPath(o, p, v) with createEmpty at its default,
\* getPath(o, p) returns exactly v, for every structure, valid path and value.
C10_RoundTrip ==
    (pa.pc = "done" /\ ~pa.createEmpty /\ ValidPath(pa.path)
        /\ (pa.wrote \/ pa.result.t = "throw")) =>
        pa.result = pa.value

\* The value under the first n segments of the path by plain property
\* lookup in the structure as it was before the call.
RECURSIVE Lookup(_, _, _)
Lookup(v, segs, n) ==
    IF n = 0 THEN v
    ELSE LET up == Lookup(v, segs, n - 1) IN
         IF isContainer(up) /\ keyIndex(up, segs[n]) # 0
         THEN up.cs[keyIndex(up, segs[n])]
         ELSE Undef

\* The paths that name a place in the structure: no segment is empty and
\* every segment but the last leads to an object or array that is there.
Addressable(root, segs) ==
    /\ \A i \in 1..Len(segs) : segs[i] # ""
    /\ \A n \in 1..(Len(segs) - 1) : isContainer(Lookup(root, segs, n))

\* C10 as amended: for a path without empty segment whose every segment but
\* the last leads to an existing object or array, setPath (createEmpty at
\* its default) raises no error and getPath then returns exactly the value.
C10_RoundTripAddressable ==
    (pa.pc \in {"written", "done"} /\ ~pa.createEmpty
        /\ (pa.wrote \/ pa.result.t = "throw")
        /\ Addressable(pa.root, trim(pa.path))) =>
        /\ pa.wrote
        /\ getPath(pa.obj, pa.path) = pa.value
        /\ pa.pc = "done" => pa.result = pa.value

\* A three segment path through an object in an array has been written and
\* read back.
C10_Witness ==
    /\ pa.pc = "done" /\ pa.wrote /\ ~pa.createEmpty
    /\ pa.path = <<"a", "0", "a">>
    /\ Addressable(pa.root, pa.path)
    /\ pa.result = pa.value
    /\ pa.root # pa.obj

\* A value that cannot be indexed further: undefined, null, a number, a
\* boolean or the empty string.
NotIndexable(v) ==
    \/ v.t \in {"undefined", "null", "number", "boolean"}
    \/ v.t = "string" /\ v.s = ""

\* The value the first n segments of the path address in root, by property
\* access from one value to the next.
RECURSIVE Intermediate(_, _, _)
Intermediate(root, segs, n) ==
    IF n = 0 THEN root
    ELSE prop(Intermediate(root, segs, n - 1), segs[n])

\* Some value on the path that still has segments to resolve is missing or
\* not indexable (no segment before it maps over an array).
BrokenPath(root, segs) ==
    \E n \in 0..(Len(segs) - 1) :
        /\ \A i \in 1..n : segs[i] # ""
        /\ \A i \in 0..(n - 1) : ~NotIndexable(Intermediate(root, segs, i))
        /\ NotIndexable(Intermediate(root, segs, n))

\* C11: getPath(root, path) never raises, and when an intermediate value on
\* the path (one with segments left to resolve) is missing or not indexable
\* (an absent key, null, a number, a boolean, an empty string) the result is
\* undefined.
C11_ShortCircuitsToUndefined ==
    (pa.pc = "done" /\ pa.read /\ ~pa.wrote) =>
        /\ pa.result.t # "throw"
        /\ BrokenPath(pa.root, trim(pa.path)) => pa.result = Undef

\* The part of C11 the code keeps: getPath raises nothing, and past a missing
\* or not indexable intermediate it returns undefined or that very
\* intermediate when it is falsy (null, 0, false, "").
C11_ShortCircuitsToFalsy ==
    (pa.pc = "done" /\ pa.read /\ ~pa.wrote) =>
        /\ pa.result.t # "throw"
        /\ BrokenPath(pa.root, trim(pa.path)) =>
              \/ pa.result = Undef
              \/ /\ ~truthy(pa.result)
                 /\ \E n \in 0..(Len(trim(pa.path)) - 1) :
                       pa.result = Intermediate(pa.root, trim(pa.path), n)

(***************************************************************************)
(* The patient parameter resolver: getPatientParam (part_000:449-490).     *)
(***************************************************************************)
MaxParams == 3      \* search parameters a resource declares

\* settings.ts: the patient parameters, in order of priority.
patientParams == <<"patient", "subject", "requester", "member", "actor", "beneficiary">>

\* The names a server may declare: patient parameters, _id and another one.
ParamNames == {"_id", "subject", "patient", "actor", "name"}

\* The lists of up to MaxParams distinct names, in any order.
ParamLists ==
    {l \in UNION {[1..n -> ParamNames] : n \in 0..MaxParams} :
        \A i, j \in 1..Len(l) : i # j => l[i] # l[j]}

ResourceTypes == {"Patient", "Observation"}

\* A resource of a capability statement: {type, searchParam: [{name}, ...]}.
Resource(type, names) ==
    Obj(<<"type", "searchParam">>,
        <<Str(type), Arr([i \in 1..Len(names) |-> Obj(<<"name">>, <<Str(names[i])>>)])>>)

\* A resource that declares no search parameters at all.
BareResource(type) == Obj(<<"type">>, <<Str(type)>>)

\* A capability statement: {rest: [{resource: [...]}]}.
Conformance(resources) ==
    Obj(<<"rest">>, <<Arr(<<Obj(<<"resource">>, <<Arr(resources)>>)>>)>>)

\* Array.prototype.find on array v: the first element, in index order,
\* whose property `key` is the string str; undefined when there is none.
findBy(v, key, str) ==
    LET idx == indexProps(v)
        hits == {i \in 1..Len(idx) : prop(prop(v, idx[i]), key) = Str(str)}
    IN IF hits = {} THEN Undef
       ELSE prop(v, idx[CHOOSE i \in hits : \A j \in hits : i <= j])

\* part_000:480-489 with the order of the two finds swapped: the first
\* declared parameter that is a patient parameter.
firstParamByServerOrder(searchParam, resourceType) ==
    LET idx == indexProps(searchParam)
        hits == {i \in 1..Len(idx) :
                    \E p \in 1..Len(patientParams) :
                        prop(prop(searchParam, idx[i]), "name") = Str(patientParams[p])}
    IN IF hits = {}
       THEN Throw("I don't know what param to use for " \o resourceType)
       ELSE prop(prop(searchParam, idx[CHOOSE i \in hits : \A j \in hits : i <= j]), "name")

\* part_000:480-489: the first patient parameter that the resource declares.
firstParam(searchParam, resourceType) ==
    LET hits == {p \in 1..Len(patientParams) :
                    truthy(findBy(searchParam, "name", patientParams[p]))}
    IN IF hits = {}
       THEN Throw("I don't know what param to use for " \o resourceType)
       ELSE Str(patientParams[CHOOSE p \in hits : \A q \in hits : p <= q])

\* part_000:449-490: the name of the parameter, or the error thrown.
getPatientParam(conformance, resourceType) ==
    LET found == getPath(conformance, <<"rest", "0", "resource">>)
        resources == IF truthy(found) THEN found ELSE Arr(<<>>)
    IN IF resources.t # "array"
       THEN Throw("TypeError")
       ELSE LET meta == findBy(resources, "type", resourceType) IN
            IF ~truthy(meta)
            THEN Throw("Resource \"" \o resourceType
                        \o "\" is not supported by this FHIR server")
            ELSE IF prop(meta, "searchParam").t # "array"
            THEN Throw("No search parameters supported for \"" \o resourceType
                        \o "\" on this FHIR server")
            ELSE IF /\ resourceType = "Patient"
                    /\ truthy(findBy(prop(meta, "searchParam"), "name", "_id"))
            THEN Str("_id")
            ELSE firstParam(prop(meta, "searchParam"), resourceType)

\* The capability statements of the model: the resource asked for declared
\* with a list of names, first or after a resource of the other type;
\* declared without search parameters; not declared; no rest at all.
InitParam ==
    \E resourceType \in ResourceTypes, names \in ParamLists,
       shape \in {"first", "second", "bare", "other", "norest"} :
        LET other == CHOOSE t \in ResourceTypes : t # resourceType
            conformance ==
                CASE shape = "first" ->
                        Conformance(<<Resource(resourceType, names),
                                      Resource(other, <<"patient">>)>>)
                  [] shape = "second" ->
                        Conformance(<<Resource(other, <<"_id", "subject">>),
                                      Resource(resourceType, names)>>)
                  [] shape = "bare" ->
                        Conformance(<<BareResource(resourceType)>>)
                  [] shape = "other" ->
                        Conformance(<<Resource(other, names)>>)
                  [] OTHER -> Obj(<<>>, <<>>)
        IN /\ shape \in {"bare", "norest"} => names = <<>>
           /\ pp = [pc |-> "start", resourceType |-> resourceType,
                    conformance |-> conformance,
                    declared |-> shape \in {"first", "second"}, names |-> names,
                    result |-> Undef]

callGetPatientParam ==
    /\ pp.pc = "start"
    /\ pp' = [pp EXCEPT !.pc = "done",
                        !.result = getPatientParam(pp.conformance, pp.resourceType)]

NextParam == callGetPatientParam /\ UNCHANGED <<cacheVars, tw, tk, jp, pa>>

StartParam ==
    /\ InitCache /\ InitParam
    /\ tw = Idle /\ tk = Idle /\ jp = Idle /\ pa = Idle

SpecParam == StartParam /\ [][NextParam]_vars

\* The names of a list, as a set.
NamesOf(names) == {names[i] : i \in 1..Len(names)}

\* The positions in patientParams of the names that are declared.
DeclaredPriorities(names) ==
    {p \in 1..Len(patientParams) : patientParams[p] \in NamesOf(names)}

\* C8: for a resource type declared with a list of search parameters the
\* result is "_id" for Patient with _id declared, whatever else is declared
\* and in whatever order; otherwise the declared name that comes first in
\* patientParams, whatever the order of the declaration; and the "don't know
\* what param to use" error exactly when no name of patientParams is declared.
C8_PatientParamByPriority ==
    (pp.pc = "done" /\ pp.declared) =>
        LET S == DeclaredPriorities(pp.names) IN
        IF pp.resourceType = "Patient" /\ "_id" \in NamesOf(pp.names)
        THEN pp.result = Str("_id")
        ELSE /\ S # {} =>
                  pp.result = Str(patientParams[CHOOSE p \in S : \A q \in S : p <= q])
             /\ S = {} <=>
                  pp.result = Throw("I don't know what param to use for "
                                        \o pp.resourceType)

\* Observation declared with subject before patient: patient, first in the
\* priority list, is returned.
C8_Witness ==
    /\ pp.pc = "done" /\ pp.declared
    /\ pp.resourceType = "Observation"
    /\ pp.names = <<"_id", "subject", "patient">>
    /\ pp.result = Str("patient")

\* Patient declared with _id after the patient parameters: _id is returned.
C8_WitnessId ==
    /\ pp.pc = "done" /\ pp.declared
    /\ pp.resourceType = "Patient"
    /\ pp.names = <<"subject", "patient", "_id">>
    /\ pp.result = Str("_id")

(***************************************************************************)
(* The JSON patch validator: assert (part_000:602-606) and                 *)
(* assertJsonPatch (part_000:608-652).                                     *)
(***************************************************************************)
MaxPatchLen == 3    \* operations of a patch document

PatchOps == {"add", "replace", "test", "move", "copy", "remove"}

\* An object with the fields whose value is given: each of op, path, value,
\* from and extra is a sequence of at most one value (empty: no such field).
Operation(op, path, value, from, extra) ==
    LET fields == <<"op", "path", "value", "from", "extra">>
        given == <<op, path, value, from, extra>>
        kept == SelectSeq(<<1, 2, 3, 4, 5>>, LAMBDA i : given[i] # <<>>)
    IN Obj([i \in 1..Len(kept) |-> fields[kept[i]]],
           [i \in 1..Len(kept) |-> given[kept[i]][1]])

\* The values a field of an operation takes in the model.
OpFields == {<<>>} \cup {<<Str(o)>> : o \in PatchOps \cup {"bogus"}}

PathFields == {<<>>, <<Str("")>>, <<Str("/a")>>, <<Num("5")>>}

ValueFields == {<<>>, <<Num("7")>>, <<Undef>>}

FromFields == {<<>>, <<Str("/b")>>, <<Num("5")>>}

ExtraFields == {<<>>, <<Num("7")>>}

\* The operations that surround the one under test in a longer document:
\* two valid ones and an add without value.
Fillers ==
    {Operation(<<Str("remove")>>, <<Str("/a")>>, <<>>, <<>>, <<>>),
     Operation(<<Str("copy")>>, <<Str("/a")>>, <<>>, <<Str("/b")>>, <<>>),
     Operation(<<Str("add")>>, <<Str("/a")>>, <<>>, <<>>, <<>>)}

\* Documents that are no array: undefined, and an object with a field "0".
NotArrays ==
    {Undef, Obj(<<"0">>, <<Operation(<<Str("remove")>>, <<Str("/a")>>, <<>>, <<>>, <<>>)>>)}

\* part_000:612-650: the checks on one operation: "ok", or the first error.
assertOperation(operation) ==
    LET op == prop(operation, "op") IN
    IF ~(op.t = "string" /\ op.s \in PatchOps)
    THEN Throw("Each patch operation must have an \"op\" property")
    ELSE IF ~truthy(prop(operation, "path"))
    THEN Throw("Invalid \"" \o op.s \o "\" operation. Missing \"path\" property")
    ELSE IF op.s \in {"add", "replace", "test"}
    THEN IF keyIndex(operation, "value") = 0
         THEN Throw("Invalid \"" \o op.s \o "\" operation. Missing \"value\" property")
         ELSE IF Len(operation.ks) # 3
         THEN Throw("Invalid \"" \o op.s \o "\" operation. Contains unknown properties")
         ELSE Val("ok", "")
    ELSE IF op.s \in {"move", "copy"}
    THEN IF prop(operation, "from").t # "string"
         THEN Throw("Invalid \"" \o op.s
                        \o "\" operation. Requires a string \"from\" property")
         ELSE IF Len(operation.ks) # 3
         THEN Throw("Invalid \"" \o op.s \o "\" operation. Contains unknown properties")
         ELSE Val("ok", "")
    ELSE IF Len(operation.ks) # 2
         THEN Throw("Invalid \"" \o op.s \o "\" operation. Contains unknown properties")
         ELSE Val("ok", "")

\* A slip that checks the first operation only.
assertJsonPatchFirstOnly(patch) ==
    IF patch.t # "array"
    THEN Throw("The JSON patch must be an array")
    ELSE IF Len(indexProps(patch)) = 0
    THEN Throw("The JSON patch array should not be empty")
    ELSE assertOperation(prop(patch, "0"))

\* part_000:608-652: "ok", or the error of the first operation, in order,
\* that fails a check.
assertJsonPatch(patch) ==
    IF patch.t # "array"
    THEN Throw("The JSON patch must be an array")
    ELSE IF Len(indexProps(patch)) = 0
    THEN Throw("The JSON patch array should not be empty")
    ELSE LET idx == indexProps(patch)
             bad == {i \in 1..Len(idx) : assertOperation(prop(patch, idx[i])).t = "throw"}
         IN IF bad = {} THEN Val("ok", "")
            ELSE assertOperation(prop(patch, idx[CHOOSE i \in bad : \A j \in bad : i <= j]))

\* The documents: no array at all, the empty array, and arrays of up to
\* MaxPatchLen operations, any operation at any place among fillers.
InitPatch ==
    \/ \E patch \in NotArrays \cup {Arr(<<>>)} :
          jp = [pc |-> "start", patch |-> patch, given |-> patch, result |-> Undef]
    \/ \E op \in OpFields, path \in PathFields, value \in ValueFields,
          from \in FromFields, extra \in ExtraFields,
          n \in 1..MaxPatchLen :
          \E at \in 1..n, fill \in [1..n -> Fillers] :
              LET patch == Arr([i \in 1..n |->
                                 IF i = at
                                 THEN Operation(op, path, value, from, extra)
                                 ELSE fill[i]])
              IN /\ fill[at] = Operation(<<Str("remove")>>, <<Str("/a")>>, <<>>, <<>>, <<>>)
                 /\ jp = [pc |-> "start", patch |-> patch, given |-> patch,
                          result |-> Undef]

callAssertJsonPatch ==
    /\ jp.pc = "start"
    /\ jp' = [jp EXCEPT !.pc = "done", !.result = assertJsonPatch(jp.patch)]

NextPatch == callAssertJsonPatch /\ UNCHANGED <<cacheVars, tw, tk, pp, pa>>

StartPatch ==
    /\ InitCache /\ InitPatch
    /\ tw = Idle /\ tk = Idle /\ pp = Idle /\ pa = Idle

SpecPatch == StartPatch /\ [][NextPatch]_vars

\* Whether the object has a field of that name, and the number of fields.
HasField(o, name) == \E i \in 1..Len(o.ks) : o.ks[i] = name

FieldOf(o, name) == o.cs[CHOOSE i \in 1..Len(o.ks) : o.ks[i] = name]

\* The operations C9 calls valid.
C9_ValidOperation(o) ==
    /\ HasField(o, "op") /\ FieldOf(o, "op").t = "string"
    /\ FieldOf(o, "op").s \in PatchOps
    /\ HasField(o, "path")
    /\ FieldOf(o, "op").s \in {"add", "replace", "test"} =>
          HasField(o, "value") /\ Len(o.ks) = 3
    /\ FieldOf(o, "op").s \in {"move", "copy"} =>
          HasField(o, "from") /\ FieldOf(o, "from").t = "string" /\ Len(o.ks) = 3
    /\ FieldOf(o, "op").s = "remove" => Len(o.ks) = 2

C9_ValidPatch(patch) ==
    /\ patch.t = "array"
    /\ Len(patch.cs) > 0
    /\ \A i \in 1..Len(patch.cs) : C9_ValidOperation(patch.cs[i])

\* C9: assertJsonPatch passes exactly for the non-empty sequences whose
\* operations all have a known op, a path and the fields of their kind and
\* no others, and it leaves the document as it was.
C9_PassesIffValid ==
    jp.pc = "done" =>
        /\ jp.result.t = "ok" <=> C9_ValidPatch(jp.given)
        /\ jp.patch = jp.given

\* The same with "a path" read as a path that is not falsy (not "", 0 or
\* null): this is what the code checks.
C9_NonEmptyPath(patch) ==
    patch.t = "array" =>
        \A i \in 1..Len(patch.cs) :
            HasField(patch.cs[i], "path") => truthy(FieldOf(patch.cs[i], "path"))

C9_PassesIffValidAndPathNotEmpty ==
    jp.pc = "done" =>
        /\ jp.result.t = "ok" <=> (C9_ValidPatch(jp.given) /\ C9_NonEmptyPath(jp.given))
        /\ jp.patch = jp.given

\* A valid document of three operations has passed.
C9_Witness ==
    /\ jp.pc = "done" /\ jp.result.t = "ok"
    /\ jp.given.t = "array" /\ Len(jp.given.cs) = 3
    /\ prop(prop(jp.given, "1"), "op") = Str("move")

====
